---- MODULE Spec2Model ----
(***************************************************************************)
(* AudioWorkflowOrchestrator (src/audio_workflow/workflow.py): one         *)
(* orchestrator object, its configuration and environment, the filesystem  *)
(* it works on, and run_workflow as a state machine                        *)
(*   Idle -> Validating -> Transcribing -> Deepcasting -> Uploading        *)
(*        -> CleaningUp -> Done,   with Failed reachable from every step.  *)
(*                                                                         *)
(* Python values are modelled as follows.                                  *)
(*   Optional value : None is <<>>, a present value v is <<v>>.            *)
(*   a path string  : [dir |-> components, name |-> tokens]; dir is the    *)
(*                    sequence of directory components (first one "/" for  *)
(*                    an absolute path, empty for a bare file name), name  *)
(*                    is the file name cut into tokens, "." being a token. *)
(*   a local that was never assigned, or holds None : <<>>.                *)
(***************************************************************************)
EXTENDS Naturals, Sequences, FiniteSets, TLC

VARIABLES
    disk,             \* the configuration files: path -> what the file holds
    config_file,      \* self.config_file
    cpc,              \* where the construction of the orchestrator stands
    probes,           \* the paths _load_config asked exists() of, in order
    opened,           \* the paths _load_single_config opened, in order
    temp_dir,         \* self.temp_dir
    env,              \* os.environ: variable name -> Optional string
    config,           \* self.config
    output_dir,       \* self.output_dir
    fs,               \* the files that exist, as absolute paths
    pc,               \* where run_workflow stands
    runs,             \* run_workflow calls made on this orchestrator
    request,          \* the arguments run_workflow was called with
    audio_file,       \* run_workflow parameter
    title,            \* run_workflow parameter / local
    database,         \* run_workflow parameter / local
    workflow,         \* run_workflow parameter / local
    keep_files,       \* run_workflow parameter / local
    database_id,      \* local of run_workflow
    steps,            \* local of run_workflow
    transcript_file,  \* local of run_workflow
    deepcast_file,    \* local of run_workflow
    markdown_file,    \* local of run_workflow
    pending,          \* _cleanup_files: the files still to visit
    result,           \* the value run_workflow returned
    calls,            \* subprocess.run calls of this run, in order
    unlinks           \* Path.unlink calls of this run, in order

\* what construction sets, besides env, config and output_dir
ctorVars == <<disk, config_file, cpc, probes, opened, temp_dir>>

\* what run_workflow works on
runVars == <<fs, pc, runs, request, audio_file, title, database, workflow,
             keep_files, database_id, steps, transcript_file, deepcast_file,
             markdown_file, pending, result, calls, unlinks>>

vars == <<ctorVars, env, config, output_dir, runVars>>

(***************************************************************************)
(* Bounds                                                                  *)
(***************************************************************************)
\* run_workflow calls made on one orchestrator object
MaxRuns == 2

(***************************************************************************)
(* Optional values and truthiness                                          *)
(***************************************************************************)
None == <<>>

Some(v) == <<v>>

\* Python truth of an Optional string: None and "" are false
Truthy(o) == o # None /\ o # Some("")

\* Python truth of an Optional token sequence: None and the empty one are false
TruthySeq(o) == o # None /\ o[1] # <<>>

\* Python truth of an Optional boolean
TruthyBool(o) == o # None /\ o[1]

\* a or b
OrElse(a, b) == IF Truthy(a) THEN a ELSE b

(***************************************************************************)
(* Paths                                                                   *)
(***************************************************************************)
\* Path.cwd() of the process
Cwd == <<"/", "proc">>

IsAbsolute(dir) == dir # <<>> /\ dir[1] = "/"

\* the file a path string names, seen from the process
Abs(p) == IF IsAbsolute(p.dir) THEN p ELSE [p EXCEPT !.dir = Cwd \o p.dir]

\* Path(p).exists()
Exists(p, files) == Abs(p) \in files

\* position of the last "." token of a name, 0 when there is none
LastDot(name) ==
    LET dots == {i \in 1..Len(name) : name[i] = "."}
    IN  IF dots = {} THEN 0 ELSE CHOOSE i \in dots : \A j \in dots : j <= i

\* Path(p).stem: the name without its last suffix; a leading or a trailing
\* dot starts no suffix
Stem(name) ==
    LET i == LastDot(name)
    IN  IF i > 1 /\ i < Len(name) THEN SubSeq(name, 1, i - 1) ELSE name

\* directory / file name
Join(dir, name) == [dir |-> dir, name |-> name]

(***************************************************************************)
(* Configuration and environment lookups                                   *)
(***************************************************************************)
\* os.getenv(key)
Getenv(e, key) == IF key \in DOMAIN e THEN e[key] ELSE None

\* dict.get(key, default) on an optional entry
GetOr(o, default) == IF o = None THEN default ELSE o[1]

\* str.upper() on the database names in use
Upper(name) ==
    CASE name = "meetings" -> "MEETINGS"
      [] name = "ideas"    -> "IDEAS"
      [] OTHER             -> name

\* f"{database_name.upper()}_DATABASE_ID"
EnvKey(name) == Upper(name) \o "_DATABASE_ID"

\* mutant: the environment is consulted before the configuration mapping
GetDatabaseIdEnvFirst(cfg, e, name) ==
    IF Truthy(OrElse(Getenv(e, EnvKey(name)), Getenv(e, "NOTION_DATABASE_ID")))
       \/ name \notin DOMAIN cfg.databases
    THEN OrElse(Getenv(e, EnvKey(name)), Getenv(e, "NOTION_DATABASE_ID"))
    ELSE Some(cfg.databases[name])

\* mutant: an unknown database falls back to a built-in id
GetDatabaseIdBuiltin(cfg, e, name) ==
    IF name \in DOMAIN cfg.databases
    THEN Some(cfg.databases[name])
    ELSE OrElse(OrElse(Getenv(e, EnvKey(name)), Getenv(e, "NOTION_DATABASE_ID")),
                Some("builtin-db"))

\* _get_database_id
GetDatabaseId(cfg, e, name) ==
    IF name \in DOMAIN cfg.databases
    THEN Some(cfg.databases[name])
    ELSE OrElse(Getenv(e, EnvKey(name)), Getenv(e, "NOTION_DATABASE_ID"))

\* a workflow definition with no keys: the {} default of _get_workflow_config
EmptyWorkflow == [steps |-> None]

\* _get_workflow_config
GetWorkflowConfig(cfg, name) ==
    IF name \in DOMAIN cfg.workflows THEN cfg.workflows[name] ELSE EmptyWorkflow

\* the default of workflow_config.get("steps", ...)
DefaultSteps == <<"transcribe", "deepcast", "notion-upload">>

\* mutant: only the first credential is required
ValidateEnvironmentFirstOnly(e) == Truthy(Getenv(e, "OPENAI_API_KEY"))

\* _validate_environment
ValidateEnvironment(e) ==
    LET required_vars == {"OPENAI_API_KEY", "NOTION_API_KEY"}
        missing_vars  == {v \in required_vars : ~Truthy(Getenv(e, v))}
    IN  missing_vars = {}

\* "x" in steps
InSteps(x, s) == \E i \in 1..Len(s) : s[i] = x

(***************************************************************************)
(* Construction: __init__                                                  *)
(***************************************************************************)
\* mutant: the process directory stands for the original one
OutputDirOfCwd(cfg, e) ==
    LET setting == GetOr(cfg.defaults.output_dir, <<".">>)
    IN  IF setting = <<".">> THEN Cwd
        ELSE IF IsAbsolute(setting) THEN setting
        ELSE Cwd \o setting

\* original_cwd of __init__: AUDIO_WORKFLOW_ORIGINAL_CWD when set and not
\* empty, else Path.cwd()
OriginalCwd(e) ==
    LET o == Getenv(e, "AUDIO_WORKFLOW_ORIGINAL_CWD")
    IN  IF o # None /\ o[1] # <<>> THEN o[1] ELSE Cwd

\* self.output_dir of __init__; the setting is a sequence of path components,
\* the setting "." being <<".">>
OutputDirOf(cfg, e) ==
    LET setting == GetOr(cfg.defaults.output_dir, <<".">>)
    IN  IF setting = <<".">> THEN OriginalCwd(e)
        ELSE IF IsAbsolute(setting) THEN setting
        ELSE OriginalCwd(e) \o setting

(***************************************************************************)
(* The three step adapters                                                 *)
(***************************************************************************)
\* What one subprocess.run call can do: not start at all (the executable is
\* missing: an exception other than CalledProcessError), or run and exit with
\* status rc, having written its output file or not.
ToolOutcomes ==
    {o \in [started : BOOLEAN, rc : {0, 1}, wrote : BOOLEAN] :
        ~o.started => (o.rc = 1 /\ ~o.wrote)}

\* the upload tool produces no local file
UploadOutcomes == {o \in ToolOutcomes : ~o.wrote}

\* the filesystem after a tool ran that was told to write `expected`
FilesAfter(files, o, expected) ==
    IF o.started /\ o.wrote THEN files \cup {Abs(expected)} ELSE files

\* _run_transcribe: output_dir / f"{Path(audio_file).stem}-transcript.md"
TranscriptPath(out, audio) ==
    Join(out, Stem(audio.name) \o <<"-transcript", ".", "md">>)

\* _run_deepcast: self.output_dir / f"{Path(transcript_file).stem}-deepcast.md"
DeepcastPath(out, transcript) ==
    Join(out, Stem(transcript.name) \o <<"-deepcast", ".", "md">>)

\* mutant: the exit status is not looked at (check=True is dropped)
RunTranscribeNoExitCheck(audio, out, o, files) ==
    IF o.started /\ Exists(TranscriptPath(out, audio), files)
    THEN Some(TranscriptPath(out, audio))
    ELSE None

\* _run_transcribe's return value, `files` being the filesystem once the tool
\* is over: the transcript path, or None
RunTranscribe(audio, out, o, files) ==
    IF ~o.started THEN None                      \* except Exception
    ELSE IF o.rc # 0 THEN None                   \* except CalledProcessError
    ELSE IF Exists(TranscriptPath(out, audio), files)
         THEN Some(TranscriptPath(out, audio))
         ELSE None

\* mutant: the exit status alone decides
RunDeepcastNoFileCheck(transcript, out, o, files) ==
    IF o.started /\ o.rc = 0 THEN Some(DeepcastPath(out, transcript)) ELSE None

\* _run_deepcast's return value
RunDeepcast(transcript, out, o, files) ==
    IF ~o.started THEN None
    ELSE IF o.rc # 0 THEN None
    ELSE IF Exists(DeepcastPath(out, transcript), files)
         THEN Some(DeepcastPath(out, transcript))
         ELSE None

\* mutant: the upload result is not looked at
RunNotionUploadIgnored(o) == TRUE

\* _run_notion_upload's return value
RunNotionUpload(o) == o.started /\ o.rc = 0

\* one entry of `calls`: the command line (tool, input file, output directory
\* or path, --title, --database-id), what the tool did, and whether the output
\* file it was told to write existed once it was over
Call(tool, file, out, t, dbid, o, files) ==
    [tool |-> tool, file |-> file, out |-> out, title |-> t, database_id |-> dbid,
     outcome |-> o,
     exists_after |-> (tool = "transcribe" /\ Exists(TranscriptPath(out[1], file), files))
                      \/ (tool = "deepcast" /\ Exists(out[1], files))]

(***************************************************************************)
(* run_workflow's decisions                                                *)
(***************************************************************************)
\* mutant: deepcast runs whenever it is listed
DeepcastEnteredAlways(s, transcript, audio) == InSteps("deepcast", s)

\* line 185: "deepcast" in steps and transcript_file != audio_file
DeepcastEntered(s, transcript, audio) ==
    InSteps("deepcast", s) /\ transcript # Some(audio)

\* mutant: the transcript is uploaded although deepcast produced its file
MarkdownFileTranscript(transcript, deepcast) == transcript

\* lines 189 and 191: markdown_file is the deepcast output when the deepcast
\* step ran (deepcast is then its result), else the transcript
MarkdownFile(transcript, deepcast) ==
    IF deepcast # None THEN deepcast ELSE transcript

\* mutant: cleanup runs whatever keep_files says
CleanupWantedAlways(keep) == TRUE

\* line 199: if not keep_files
CleanupWanted(keep) == ~TruthyBool(keep)

\* line 200: evaluating the list reads deepcast_file, which is unbound when
\* "deepcast" is listed but the deepcast step was not entered
CleanupRaises(s, deepcast) == InSteps("deepcast", s) /\ deepcast = None

\* mutant: only the transcript is handed to _cleanup_files
CleanupListTranscriptOnly(s, transcript, deepcast) == <<transcript[1]>>

\* line 200: the list handed to _cleanup_files
CleanupList(s, transcript, deepcast) ==
    IF InSteps("deepcast", s) THEN <<transcript[1], deepcast[1]>> ELSE <<transcript[1]>>

\* the string "audio_file" of line 311
LiteralAudioFile == Join(<<>>, <<"audio_file">>)

\* mutant: the try encloses the loop, so that the first failure ends it
RemainingAfterAbort(rest, ok) == IF ok THEN rest ELSE <<>>

\* lines 310-316: the try is inside the loop, which goes on to the rest of
\* the list whatever unlink did
RemainingAfter(rest, ok) == rest

\* line 311: file_path and file_path != "audio_file" and Path(file_path).exists()
ShouldUnlink(p, files) == p # LiteralAudioFile /\ Exists(p, files)

(***************************************************************************)
(* Inputs                                                                  *)
(***************************************************************************)
StepNames == {"transcribe", "deepcast", "notion-upload"}

\* the step lists a workflow definition may hold: every ordering of every
\* subset of the three step names
StepLists ==
    {s \in UNION {[1..n -> StepNames] : n \in 0..Cardinality(StepNames)} :
        \A i, j \in 1..Len(s) : i # j => s[i] # s[j]}

\* the environments: each credential unset, empty or set; the two database
\* id variables unset or set
EnvSet ==
    [OPENAI_API_KEY : {None, Some(""), Some("sk-key")},
     NOTION_API_KEY : {None, Some(""), Some("secret-key")},
     MEETINGS_DATABASE_ID : {None, Some("meetings-env-db")},
     NOTION_DATABASE_ID : {None, Some("generic-db")},
     AUDIO_WORKFLOW_ORIGINAL_CWD : {None}]

NoDefaults ==
    [output_dir |-> None, temp_dir |-> None, database |-> None,
     workflow |-> None, keep_files |-> None]

\* the configurations: the database mapping empty or naming "meetings", the
\* workflow "quick_notes" absent, without steps, or with any step list
ConfigSet ==
    [defaults : {NoDefaults},
     databases : {<<>>, [meetings |-> "cfg-db"]},
     workflows : {<<>>} \cup
                 {[quick_notes |-> [steps |-> st]] :
                     st \in {None} \cup {Some(s) : s \in StepLists}}]

\* the audio files a run is given: a bare name with a suffix, the bare name
\* "audio_file", and a file that is itself named like a transcript
AudioFiles ==
    {Join(<<>>, <<"meeting", ".", "mp3">>),
     Join(<<>>, <<"audio_file">>),
     Join(Cwd, <<"meeting", "-transcript", ".", "md">>)}

Titles == {None, Some(<<"Weekly">>)}

DatabaseArgs == {None}

WorkflowArgs == {None}

KeepArgs == {None, Some(TRUE), Some(FALSE)}

(***************************************************************************)
(* Configuration files and their discovery: _load_config                   *)
(***************************************************************************)
\* Path.home()
Home == <<"/", "home", "user">>

\* the directory AUDIO_WORKFLOW_ORIGINAL_CWD names when it is set
UserDir == <<"/", "work">>

\* Path(sys.argv[0]).resolve().parent
ScriptDir == <<"/", "opt", "app">>

\* the empty string as a path
EmptyPath == Join(<<>>, <<>>)

\* the file AUDIO_WORKFLOW_CONFIG or an explicit config_file names
CustomPath == Join(<<"/", "etc">>, <<"aw", ".", "yaml">>)

AudioWorkflowYaml == <<"audio-workflow", ".", "yaml">>

ConfigYaml == <<"config", ".", "yaml">>

\* mutant: the home directory is searched before the working directory
ConfigLocationsHomeFirst(e) ==
    <<Join(Home \o <<".config", "audio-workflow">>, ConfigYaml),
      Join(Home, <<".", "audio-workflow", ".", "yaml">>),
      Join(OriginalCwd(e), AudioWorkflowYaml),
      Join(OriginalCwd(e), ConfigYaml)>>
    \o (LET o == Getenv(e, "AUDIO_WORKFLOW_CONFIG")
        IN  IF o # None /\ o[1] # EmptyPath THEN <<o[1]>> ELSE <<>>)
    \o <<Join(ScriptDir, ConfigYaml)>>

\* lines 71-87: the candidate locations in priority order, the None entries
\* filtered out
ConfigLocations(e) ==
    <<Join(OriginalCwd(e), AudioWorkflowYaml),
      Join(OriginalCwd(e), ConfigYaml),
      Join(Home \o <<".config", "audio-workflow">>, ConfigYaml),
      Join(Home, <<".", "audio-workflow", ".", "yaml">>)>>
    \o (LET o == Getenv(e, "AUDIO_WORKFLOW_CONFIG")
        IN  IF o # None /\ o[1] # EmptyPath THEN <<o[1]>> ELSE <<>>)
    \o <<Join(ScriptDir, ConfigYaml)>>

\* the configuration files there may be
DiskPaths ==
    {Join(Cwd, AudioWorkflowYaml), Join(Cwd, ConfigYaml),
     Join(UserDir, AudioWorkflowYaml), Join(UserDir, ConfigYaml),
     Join(Home \o <<".config", "audio-workflow">>, ConfigYaml),
     Join(Home, <<".", "audio-workflow", ".", "yaml">>),
     CustomPath,
     Join(ScriptDir, ConfigYaml)}

\* {}: the configuration with no key
EmptyConfig == [defaults |-> NoDefaults, databases |-> <<>>, workflows |-> <<>>]

\* config_path.exists()
ConfigExists(d, p) == p \in DOMAIN d /\ d[p].kind # "missing"

\* mutant: a file that cannot be loaded is replaced by whatever configuration
\* file can be found
LoadSingleConfigFallback(d, p) ==
    IF p \in DOMAIN d /\ d[p].kind = "mapping" THEN d[p].doc
    ELSE IF \E q \in DOMAIN d : d[q].kind = "mapping"
         THEN d[CHOOSE q \in DOMAIN d : d[q].kind = "mapping"].doc
         ELSE EmptyConfig

\* _load_single_config: the document of the file; {} when the file cannot be
\* opened (missing), cannot be parsed, or holds an empty document
LoadSingleConfig(d, p) ==
    IF p \in DOMAIN d /\ d[p].kind = "mapping" THEN d[p].doc ELSE EmptyConfig

\* self.temp_dir of __init__
TempDirOf(cfg) ==
    LET setting == GetOr(cfg.defaults.temp_dir, <<"/", "tmp">>)
    IN  IF IsAbsolute(setting) THEN setting ELSE Cwd \o setting

\* an orchestrator constructed with configuration cfg, read from an explicit
\* configuration file
Constructed(cfg) ==
    /\ config_file = Some(CustomPath)
    /\ disk = [p \in DiskPaths |->
                 IF p = CustomPath THEN [kind |-> "mapping", doc |-> cfg]
                                   ELSE [kind |-> "missing"]]
    /\ cpc = "Constructed"
    /\ probes = <<>>
    /\ opened = <<CustomPath>>
    /\ config = cfg
    /\ output_dir = OutputDirOf(cfg, env)
    /\ temp_dir = TempDirOf(cfg)

(***************************************************************************)
(* Initial state: the orchestrator is constructed, no run was started      *)
(***************************************************************************)
NoRun ==
    /\ pc = "Idle"
    /\ runs = 0
    /\ request = None
    /\ audio_file = None
    /\ title = None
    /\ database = None
    /\ workflow = None
    /\ keep_files = None
    /\ database_id = None
    /\ steps = None
    /\ transcript_file = None
    /\ deepcast_file = None
    /\ markdown_file = None
    /\ pending = None
    /\ result = None
    /\ calls = <<>>
    /\ unlinks = <<>>

Init ==
    /\ env \in EnvSet
    /\ \E cfg \in ConfigSet : Constructed(cfg)
    /\ fs = {Abs(a) : a \in AudioFiles}
    /\ NoRun

(***************************************************************************)
(* run_workflow                                                            *)
(***************************************************************************)
\* mutant: a failure sends the run back to validation
ReturnRetry(v) ==
    /\ pc' = IF v THEN "Done" ELSE "Validating"
    /\ result' = Some(v)

\* return v: the run is over
Return(v) ==
    /\ pc' = IF v THEN "Done" ELSE "Failed"
    /\ result' = Some(v)

\* a call of run_workflow(audio_file, title, database, workflow, keep_files)
RunWorkflow(a, t, d, w, k) ==
    /\ cpc = "Constructed"
    /\ pc \in {"Idle", "Done", "Failed"}
    /\ runs < MaxRuns
    /\ runs' = runs + 1
    /\ request' = Some([audio_file |-> a, title |-> t, database |-> d,
                         workflow |-> w, keep_files |-> k])
    /\ pc' = "Validating"
    /\ audio_file' = Some(a)
    /\ title' = t
    /\ database' = d
    /\ workflow' = w
    /\ keep_files' = k
    /\ database_id' = None
    /\ steps' = None
    /\ transcript_file' = None
    /\ deepcast_file' = None
    /\ markdown_file' = None
    /\ pending' = None
    /\ result' = None
    /\ calls' = <<>>
    /\ unlinks' = <<>>
    /\ UNCHANGED <<ctorVars, env, config, output_dir, fs>>

\* lines 146-147
ResolveDatabase(cfg, d) ==
    IF d = None THEN GetOr(cfg.defaults.database, "meetings") ELSE d[1]

\* lines 148-149
ResolveWorkflow(cfg, w) ==
    IF w = None THEN GetOr(cfg.defaults.workflow, "quick_notes") ELSE w[1]

\* mutant: keep_files or the default, so that an explicit False does not count
ResolveKeepFilesOr(cfg, k) ==
    IF k # None /\ k[1] THEN TRUE ELSE GetOr(cfg.defaults.keep_files, FALSE)

\* lines 150-151
ResolveKeepFiles(cfg, k) ==
    IF k = None THEN GetOr(cfg.defaults.keep_files, FALSE) ELSE k[1]

\* lines 154-155
ResolveTitle(t, audio) == IF TruthySeq(t) THEN t[1] ELSE Stem(audio.name)

\* mutant: a definition without steps runs nothing
ResolveStepsNoDefault(wc) == GetOr(wc.steps, <<>>)

\* line 165
ResolveSteps(wc) == GetOr(wc.steps, DefaultSteps)

\* lines 142-143: a credential is missing
ValidateFails ==
    /\ pc = "Validating"
    /\ ~ValidateEnvironment(env)
    /\ Return(FALSE)
    /\ UNCHANGED <<ctorVars, env, config, output_dir, fs, runs, request, audio_file, title, database,
                   workflow, keep_files, database_id, steps, transcript_file,
                   deepcast_file, markdown_file, pending, calls, unlinks>>

\* lines 142-165: the credentials are there; the plan is resolved
Validate ==
    /\ pc = "Validating"
    /\ ValidateEnvironment(env)
    /\ database' = Some(ResolveDatabase(config, database))
    /\ workflow' = Some(ResolveWorkflow(config, workflow))
    /\ keep_files' = Some(ResolveKeepFiles(config, keep_files))
    /\ title' = Some(ResolveTitle(title, audio_file[1]))
    /\ database_id' = GetDatabaseId(config, env, database'[1])
    /\ IF ~Truthy(database_id')
       THEN /\ Return(FALSE)
            /\ steps' = steps
       ELSE /\ steps' = Some(ResolveSteps(GetWorkflowConfig(config, workflow'[1])))
            /\ pc' = "Transcribing"
            /\ result' = result
    /\ UNCHANGED <<ctorVars, env, config, output_dir, fs, runs, request, audio_file, transcript_file,
                   deepcast_file, markdown_file, pending, calls, unlinks>>

\* lines 177-180: the transcribe step
Transcribe ==
    /\ pc = "Transcribing"
    /\ InSteps("transcribe", steps[1])
    /\ \E o \in ToolOutcomes :
        /\ fs' = FilesAfter(fs, o, TranscriptPath(output_dir, audio_file[1]))
        /\ calls' = Append(calls, Call("transcribe", audio_file[1], Some(output_dir),
                                       None, None, o, fs'))
        /\ transcript_file' = RunTranscribe(audio_file[1], output_dir, o, fs')
    /\ IF transcript_file' = None
       THEN Return(FALSE)
       ELSE pc' = "Deepcasting" /\ result' = result
    /\ UNCHANGED <<ctorVars, env, config, output_dir, runs, request, audio_file, title, database,
                   workflow, keep_files, database_id, steps, deepcast_file,
                   markdown_file, pending, unlinks>>

\* lines 181-182: transcription is skipped
SkipTranscribe ==
    /\ pc = "Transcribing"
    /\ ~InSteps("transcribe", steps[1])
    /\ transcript_file' = audio_file
    /\ pc' = "Deepcasting"
    /\ UNCHANGED <<ctorVars, env, config, output_dir, fs, runs, request, audio_file, title, database,
                   workflow, keep_files, database_id, steps, deepcast_file,
                   markdown_file, pending, result, calls, unlinks>>

\* lines 185-189: the deepcast step
Deepcast ==
    /\ pc = "Deepcasting"
    /\ DeepcastEntered(steps[1], transcript_file, audio_file[1])
    /\ \E o \in ToolOutcomes :
        /\ fs' = FilesAfter(fs, o, DeepcastPath(output_dir, transcript_file[1]))
        /\ calls' = Append(calls, Call("deepcast", transcript_file[1],
                                       Some(DeepcastPath(output_dir, transcript_file[1])),
                                       None, None, o, fs'))
        /\ deepcast_file' = RunDeepcast(transcript_file[1], output_dir, o, fs')
    /\ IF deepcast_file' = None
       THEN Return(FALSE) /\ markdown_file' = markdown_file
       ELSE /\ pc' = "Uploading"
            /\ result' = result
            /\ markdown_file' = MarkdownFile(transcript_file, deepcast_file')
    /\ UNCHANGED <<ctorVars, env, config, output_dir, runs, request, audio_file, title, database,
                   workflow, keep_files, database_id, steps, transcript_file,
                   pending, unlinks>>

\* lines 190-191: the deepcast step is not entered
SkipDeepcast ==
    /\ pc = "Deepcasting"
    /\ ~DeepcastEntered(steps[1], transcript_file, audio_file[1])
    /\ markdown_file' = MarkdownFile(transcript_file, None)
    /\ pc' = "Uploading"
    /\ UNCHANGED <<ctorVars, env, config, output_dir, fs, runs, request, audio_file, title, database,
                   workflow, keep_files, database_id, steps, transcript_file,
                   deepcast_file, pending, result, calls, unlinks>>

\* lines 194-196: the upload step
Upload ==
    /\ pc = "Uploading"
    /\ InSteps("notion-upload", steps[1])
    /\ \E o \in UploadOutcomes :
        /\ calls' = Append(calls, Call("notion-upload", markdown_file[1], None,
                                       title, database_id, o, fs))
        /\ IF RunNotionUpload(o)
           THEN pc' = "CleaningUp" /\ result' = result
           ELSE Return(FALSE)
    /\ UNCHANGED <<ctorVars, env, config, output_dir, fs, runs, request, audio_file, title, database,
                   workflow, keep_files, database_id, steps, transcript_file,
                   deepcast_file, markdown_file, pending, unlinks>>

\* line 194: "notion-upload" is not listed
SkipUpload ==
    /\ pc = "Uploading"
    /\ ~InSteps("notion-upload", steps[1])
    /\ pc' = "CleaningUp"
    /\ UNCHANGED <<ctorVars, env, config, output_dir, fs, runs, request, audio_file, title, database,
                   workflow, keep_files, database_id, steps, transcript_file,
                   deepcast_file, markdown_file, pending, result, calls, unlinks>>

\* lines 199-200: the cleanup list is built and handed to _cleanup_files; with
\* keep_files nothing is handed over; an unbound deepcast_file raises, which
\* line 206 turns into return False
CleanupStart ==
    /\ pc = "CleaningUp"
    /\ pending = None
    /\ IF ~CleanupWanted(keep_files)
       THEN pending' = Some(<<>>) /\ UNCHANGED <<pc, result>>
       ELSE IF CleanupRaises(steps[1], deepcast_file)
       THEN Return(FALSE) /\ pending' = pending
       ELSE /\ pending' = Some(CleanupList(steps[1], transcript_file, deepcast_file))
            /\ UNCHANGED <<pc, result>>
    /\ UNCHANGED <<ctorVars, env, config, output_dir, fs, runs, request, audio_file, title, database,
                   workflow, keep_files, database_id, steps, transcript_file,
                   deepcast_file, markdown_file, calls, unlinks>>

\* lines 310-316: one turn of _cleanup_files' loop; unlink may raise, which is
\* logged and leaves the file
CleanupFile ==
    /\ pc = "CleaningUp"
    /\ pending # None
    /\ pending[1] # <<>>
    /\ LET file_path == Head(pending[1])
           rest == Tail(pending[1])
       IN  IF ShouldUnlink(file_path, fs)
           THEN \E ok \in BOOLEAN :
                   /\ unlinks' = Append(unlinks, [file |-> file_path, ok |-> ok])
                   /\ fs' = IF ok THEN fs \ {Abs(file_path)} ELSE fs
                   /\ pending' = Some(RemainingAfter(rest, ok))
           ELSE /\ pending' = Some(rest)
                /\ UNCHANGED <<unlinks, fs>>
    /\ UNCHANGED <<ctorVars, env, config, output_dir, pc, runs, request, audio_file, title, database,
                   workflow, keep_files, database_id, steps, transcript_file,
                   deepcast_file, markdown_file, result, calls>>

\* lines 202-204: return True
Finish ==
    /\ pc = "CleaningUp"
    /\ pending = Some(<<>>)
    /\ Return(TRUE)
    /\ UNCHANGED <<ctorVars, env, config, output_dir, fs, runs, request, audio_file, title, database,
                   workflow, keep_files, database_id, steps, transcript_file,
                   deepcast_file, markdown_file, pending, calls, unlinks>>

Next ==
    \/ \E a \in AudioFiles, t \in Titles, d \in DatabaseArgs, w \in WorkflowArgs,
          k \in KeepArgs : RunWorkflow(a, t, d, w, k)
    \/ ValidateFails
    \/ Validate
    \/ Transcribe
    \/ SkipTranscribe
    \/ Deepcast
    \/ SkipDeepcast
    \/ Upload
    \/ SkipUpload
    \/ CleanupStart
    \/ CleanupFile
    \/ Finish

Spec == Init /\ [][Next]_vars

(***************************************************************************)
(* Runs on every layering of arguments, configuration and environment      *)
(***************************************************************************)
\* the environments: NOTION_API_KEY unset or set; the database id variable
\* of "meetings" unset, empty or set, the generic one unset or set
PlanEnvSet ==
    [OPENAI_API_KEY : {Some("sk-key")},
     NOTION_API_KEY : {None, Some("secret-key")},
     MEETINGS_DATABASE_ID : {None, Some(""), Some("meetings-env-db")},
     NOTION_DATABASE_ID : {None, Some("generic-db")}]

\* the workflows of these configurations: one with steps, one whose steps
\* list is empty, one without a steps key
PlanWorkflows ==
    [quick_notes |-> [steps |-> Some(<<"notion-upload", "transcribe">>)],
     custom      |-> [steps |-> Some(<<>>)],
     bare        |-> [steps |-> None]]

\* the configurations: every default absent or present; the database mapping
\* empty or naming "meetings"; the three workflows above
PlanConfigSet ==
    [defaults : [output_dir : {None}, temp_dir : {None},
                 database : {None, Some("ideas")},
                 workflow : {None, Some("custom")},
                 keep_files : {None, Some(TRUE)}],
     databases : {<<>>, [meetings |-> "cfg-db"]},
     workflows : {PlanWorkflows}]

PlanAudioFiles == {Join(<<>>, <<"meeting", ".", "mp3">>)}

PlanTitles == {None, Some(<<>>), Some(<<"Weekly">>)}

PlanDatabaseArgs == {None, Some("meetings")}

PlanWorkflowArgs == {None, Some("bare")}

InitPlan ==
    /\ env \in PlanEnvSet
    /\ \E cfg \in PlanConfigSet : Constructed(cfg)
    /\ fs = {Abs(a) : a \in PlanAudioFiles}
    /\ NoRun

NextPlan ==
    \/ \E a \in PlanAudioFiles, t \in PlanTitles, d \in PlanDatabaseArgs,
          w \in PlanWorkflowArgs, k \in KeepArgs : RunWorkflow(a, t, d, w, k)
    \/ ValidateFails
    \/ Validate
    \/ Transcribe
    \/ SkipTranscribe
    \/ Deepcast
    \/ SkipDeepcast
    \/ Upload
    \/ SkipUpload
    \/ CleanupStart
    \/ CleanupFile
    \/ Finish

\* run_workflow on every layering of its parameters
SpecPlan == InitPlan /\ [][NextPlan]_vars

(***************************************************************************)
(* Construction: __init__ and _load_config, one step per file looked at    *)
(***************************************************************************)
\* lines 58-60: an explicit configuration file is loaded, nothing else
LoadExplicit ==
    /\ cpc = "New"
    /\ config_file # None
    /\ opened' = Append(opened, config_file[1])
    /\ config' = LoadSingleConfig(disk, config_file[1])
    /\ cpc' = "Loaded"
    /\ UNCHANGED <<disk, config_file, probes, temp_dir, env, output_dir, runVars>>

\* lines 89-92: one turn of the discovery loop
Probe ==
    /\ cpc = "New"
    /\ config_file = None
    /\ Len(probes) < Len(ConfigLocations(env))
    /\ LET config_path == ConfigLocations(env)[Len(probes) + 1]
       IN  /\ probes' = Append(probes, config_path)
           /\ IF ConfigExists(disk, config_path)
              THEN /\ opened' = Append(opened, config_path)
                   /\ config' = LoadSingleConfig(disk, config_path)
                   /\ cpc' = "Loaded"
              ELSE UNCHANGED <<opened, config, cpc>>
    /\ UNCHANGED <<disk, config_file, temp_dir, env, output_dir, runVars>>

\* lines 94-100: no candidate exists
NoConfigFound ==
    /\ cpc = "New"
    /\ config_file = None
    /\ Len(probes) = Len(ConfigLocations(env))
    /\ config' = EmptyConfig
    /\ cpc' = "Loaded"
    /\ UNCHANGED <<disk, config_file, probes, opened, temp_dir, env, output_dir, runVars>>

\* lines 28-54: the output and the temp directory
InitPaths ==
    /\ cpc = "Loaded"
    /\ output_dir' = OutputDirOf(config, env)
    /\ temp_dir' = TempDirOf(config)
    /\ cpc' = "Constructed"
    /\ UNCHANGED <<disk, config_file, probes, opened, env, config, runVars>>

\* the document a configuration file holds when it holds one: each file has
\* its own, with its own output_dir and temp_dir settings
DocAt(p) ==
    LET doc(tag, out, tmp) ==
            [defaults |-> [NoDefaults EXCEPT !.workflow = Some(tag),
                                             !.output_dir = out, !.temp_dir = tmp],
             databases |-> <<>>, workflows |-> <<>>]
    IN  CASE p = Join(Cwd, AudioWorkflowYaml)     -> doc("cwd-aw", Some(<<".">>), None)
          [] p = Join(Cwd, ConfigYaml)            -> doc("cwd-config", Some(<<"out">>), Some(<<"scratch">>))
          [] p = Join(UserDir, AudioWorkflowYaml) -> doc("user-aw", Some(<<".">>), Some(<<"/", "var", "tmp">>))
          [] p = Join(UserDir, ConfigYaml)        -> doc("user-config", Some(<<"notes", "out">>), None)
          [] p = Join(ScriptDir, ConfigYaml)      -> doc("script", Some(<<"/", "srv", "out">>), Some(<<".">>))
          [] p = CustomPath                       -> doc("custom", None, Some(<<"scratch">>))
          [] p = Join(Home, <<".", "audio-workflow", ".", "yaml">>)
                                                  -> doc("home-dot", Some(<<>>), None)
          [] OTHER                                -> doc("home-config", None, None)

\* what a configuration file may be: absent, not parsable, or a document
FileKinds == {"missing", "unparsable", "mapping"}

\* the environments of a construction: the original directory and the
\* configuration override unset or set, the latter possibly to ""
CtorEnvSet ==
    [OPENAI_API_KEY : {Some("sk-key")},
     NOTION_API_KEY : {Some("secret-key")},
     AUDIO_WORKFLOW_ORIGINAL_CWD : {None, Some(UserDir)},
     AUDIO_WORKFLOW_CONFIG : {None, Some(EmptyPath), Some(CustomPath)}]

\* nothing is constructed yet: AudioWorkflowOrchestrator(config_file) is called
InitConfig ==
    /\ env \in CtorEnvSet
    /\ \E k \in [DiskPaths -> FileKinds] :
          disk = [p \in DiskPaths |->
                    IF k[p] = "mapping" THEN [kind |-> "mapping", doc |-> DocAt(p)]
                                        ELSE [kind |-> k[p]]]
    /\ config_file \in {None, Some(CustomPath)}
    /\ cpc = "New"
    /\ probes = <<>>
    /\ opened = <<>>
    /\ config = EmptyConfig
    /\ output_dir = <<>>
    /\ temp_dir = <<>>
    /\ fs = {}
    /\ NoRun

NextConfig ==
    \/ LoadExplicit
    \/ Probe
    \/ NoConfigFound
    \/ InitPaths

\* the construction of one orchestrator
SpecConfig == InitConfig /\ [][NextConfig]_vars

\* the output_dir settings: absent, ".", absolute, relative, ""
OutputSettings ==
    {None, Some(<<".">>), Some(<<"/", "srv", "out">>), Some(<<"out">>),
     Some(<<"notes", "out">>), Some(<<>>)}

\* the temp_dir settings: absent, absolute, relative, "."
TempSettings ==
    {None, Some(<<"/", "var", "tmp">>), Some(<<"scratch">>), Some(<<".">>)}

\* the configuration is loaded, the directories are not resolved yet
InitPathsOnly ==
    /\ env \in [OPENAI_API_KEY : {Some("sk-key")},
                 NOTION_API_KEY : {Some("secret-key")},
                 AUDIO_WORKFLOW_ORIGINAL_CWD : {None, Some(<<>>), Some(UserDir)}]
    /\ \E out \in OutputSettings, tmp \in TempSettings :
          config = [EmptyConfig EXCEPT !.defaults.output_dir = out,
                                       !.defaults.temp_dir = tmp]
    /\ config_file = Some(CustomPath)
    /\ disk = [p \in DiskPaths |->
                 IF p = CustomPath THEN [kind |-> "mapping", doc |-> config]
                                   ELSE [kind |-> "missing"]]
    /\ cpc = "Loaded"
    /\ probes = <<>>
    /\ opened = <<CustomPath>>
    /\ output_dir = <<>>
    /\ temp_dir = <<>>
    /\ fs = {}
    /\ NoRun

NextPaths == InitPaths

\* the path resolution of __init__ on every setting
SpecPaths == InitPathsOnly /\ [][NextPaths]_vars

(***************************************************************************)
(* Vocabulary of the properties                                            *)
(***************************************************************************)
\* run_workflow has returned
RunOver == pc \in {"Done", "Failed"}

\* both credentials are set to a non-empty value
CredentialsPresent ==
    /\ env.OPENAI_API_KEY \notin {None, Some("")}
    /\ env.NOTION_API_KEY \notin {None, Some("")}

\* a recorded tool call that did not start or exited with a non-zero status
ExitFailed(c) == ~c.outcome.started \/ c.outcome.rc # 0

\* a recorded transcribe or deepcast call that exited 0 without its output
\* file existing afterwards
MissingOutput(c) ==
    /\ c.tool \in {"transcribe", "deepcast"}
    /\ c.outcome.started
    /\ c.outcome.rc = 0
    /\ ~c.exists_after

\* a recorded call of a step that failed
StepFailed(c) == ExitFailed(c) \/ MissingOutput(c)

\* the positions of a tool's calls in this run
CallsOf(tool) == {i \in 1..Len(calls) : calls[i].tool = tool}

(***************************************************************************)
(* C1: when OPENAI_API_KEY or NOTION_API_KEY is missing, a run that has    *)
(* left validation has returned False, with no tool invoked and no file    *)
(* deleted, whatever the audio file, the steps and keep_files are.         *)
(***************************************************************************)
C1_MissingCredentialAborts ==
    (pc \notin {"Idle", "Validating"} /\ ~CredentialsPresent)
        => /\ pc = "Failed"
           /\ result = Some(FALSE)
           /\ calls = <<>>
           /\ unlinks = <<>>
           /\ fs = {Abs(a) : a \in AudioFiles}

\* a run that failed for a missing NOTION_API_KEY, the other credential set
C1_Witness ==
    /\ pc = "Failed"
    /\ env.NOTION_API_KEY = None
    /\ env.OPENAI_API_KEY = Some("sk-key")
    /\ request[1].keep_files = Some(FALSE)
    /\ config.workflows # <<>>

(***************************************************************************)
(* C2: when the resolved database name is not in the configuration's       *)
(* databases mapping and neither <NAME_UPPER>_DATABASE_ID nor              *)
(* NOTION_DATABASE_ID is set, the run returns False with no step invoked   *)
(* and no file deleted.                                                    *)
(***************************************************************************)
C2_UnknownDatabaseAborts ==
    (/\ pc \notin {"Idle", "Validating"}
     /\ database # None
     /\ database[1] \notin DOMAIN config.databases
     /\ Getenv(env, Upper(database[1]) \o "_DATABASE_ID") = None
     /\ Getenv(env, "NOTION_DATABASE_ID") = None)
        => /\ pc = "Failed"
           /\ result = Some(FALSE)
           /\ calls = <<>>
           /\ unlinks = <<>>

\* the credentials are there and the run failed for the database alone
C2_Witness ==
    /\ pc = "Failed"
    /\ CredentialsPresent
    /\ database = Some("meetings")
    /\ DOMAIN config.databases = {}
    /\ env.MEETINGS_DATABASE_ID = None
    /\ env.NOTION_DATABASE_ID = None
    /\ calls = <<>>

(***************************************************************************)
(* C3: Failed is absorbing. A step that failed is the last tool call of    *)
(* its run, and the run has returned False: after a transcribe failure     *)
(* neither deepcast nor upload is invoked, after a deepcast failure upload *)
(* is not invoked.                                                         *)
(***************************************************************************)
C3_FailedIsAbsorbing ==
    \A i \in 1..Len(calls) :
        StepFailed(calls[i])
            => /\ i = Len(calls)
               /\ pc = "Failed"
               /\ result = Some(FALSE)

\* a deepcast step failed after a transcription that succeeded, and upload was
\* listed
C3_Witness ==
    /\ pc = "Failed"
    /\ Len(calls) = 2
    /\ calls[2].tool = "deepcast"
    /\ ExitFailed(calls[2])
    /\ InSteps("notion-upload", steps[1])

(***************************************************************************)
(* C4: deepcast is invoked only when "deepcast" is in the resolved steps   *)
(* and the transcribe step ran and succeeded just before it; its input is  *)
(* the transcript that step produced, never the audio file.                *)
(***************************************************************************)
C4_DeepcastOnlyAfterTranscribe ==
    \A i \in CallsOf("deepcast") :
        /\ InSteps("deepcast", steps[1])
        /\ InSteps("transcribe", steps[1])
        /\ i = 2
        /\ calls[1].tool = "transcribe"
        /\ ~StepFailed(calls[1])
        /\ calls[i].file = TranscriptPath(output_dir, audio_file[1])
        /\ calls[i].file # audio_file[1]

\* deepcast is listed without transcribe: the run got past the deepcast stage
\* without invoking it
C4_Witness ==
    /\ pc = "Uploading"
    /\ InSteps("deepcast", steps[1])
    /\ ~InSteps("transcribe", steps[1])
    /\ calls = <<>>

(***************************************************************************)
(* C5: a transcribe or deepcast tool that exits 0 without its expected     *)
(* output file existing afterwards fails the step as a non-zero exit does: *)
(* it is the run's last tool call, nothing is deleted and the run returns  *)
(* False.                                                                  *)
(***************************************************************************)
C5_MissingOutputIsFailure ==
    \A i \in 1..Len(calls) :
        MissingOutput(calls[i])
            => /\ i = Len(calls)
               /\ pc = "Failed"
               /\ result = Some(FALSE)
               /\ unlinks = <<>>

\* the deepcast tool exited 0 and left no file
C5_Witness ==
    /\ pc = "Failed"
    /\ Len(calls) = 2
    /\ MissingOutput(calls[2])
    /\ InSteps("notion-upload", steps[1])

(***************************************************************************)
(* C6: with the resolved keep_files true no file is deleted, in runs that  *)
(* succeed and in runs that fail, for every step list.                     *)
(***************************************************************************)
C6_KeepFilesDeletesNothing ==
    (pc \notin {"Idle", "Validating"} /\ TruthyBool(keep_files))
        => /\ unlinks = <<>>
           /\ \A i \in 1..Len(calls) :
                 (calls[i].exists_after /\ calls[i].tool = "transcribe")
                     => Exists(TranscriptPath(output_dir, audio_file[1]), fs)

\* a successful three-step run with keep_files: both artifacts are still there
C6_Witness ==
    /\ pc = "Done"
    /\ keep_files = Some(TRUE)
    /\ Len(calls) = 3
    /\ Exists(transcript_file[1], fs)
    /\ Exists(deepcast_file[1], fs)

(***************************************************************************)
(* C7: cleanup never flips a successful run to Failed. For every step list *)
(* and keep_files value, a run whose validation and database resolution    *)
(* succeeded and whose entered steps all succeeded returns True.           *)
(***************************************************************************)
C7_CleanupNeverFlipsSuccess ==
    (/\ RunOver
     /\ CredentialsPresent
     /\ Truthy(database_id)
     /\ \A i \in 1..Len(calls) : ~StepFailed(calls[i]))
        => result = Some(TRUE)

(***************************************************************************)
(* C8: files are deleted only in a run that succeeds. A run in which a     *)
(* file was deleted is past its steps, none of which failed, and does not  *)
(* end in Failed; a failed run has deleted nothing and the artifacts its   *)
(* completed steps produced are still in place.                            *)
(***************************************************************************)
C8_DeletionsOnlyOnSuccess ==
    /\ unlinks # <<>>
          => /\ pc \in {"CleaningUp", "Done"}
             /\ \A i \in 1..Len(calls) : ~StepFailed(calls[i])
    /\ pc = "Failed"
          => /\ unlinks = <<>>
             /\ \A i \in 1..Len(calls) :
                   (calls[i].tool = "transcribe" /\ ~StepFailed(calls[i]))
                       => Exists(TranscriptPath(output_dir, audio_file[1]), fs)

\* the upload failed after transcribe and deepcast had produced their files,
\* with keep_files false: both artifacts are left
C8_Witness ==
    /\ pc = "Failed"
    /\ keep_files = Some(FALSE)
    /\ Len(calls) = 3
    /\ calls[3].tool = "notion-upload"
    /\ Exists(transcript_file[1], fs)
    /\ Exists(deepcast_file[1], fs)

(***************************************************************************)
(* C9: the end-to-end success path. Default three steps, keep_files false, *)
(* no explicit title, every step succeeding.                               *)
(***************************************************************************)
\* the case of C9: the run is over, after three steps that all succeeded
C9_Case ==
    /\ RunOver
    /\ steps = Some(DefaultSteps)
    /\ keep_files = Some(FALSE)
    /\ ~TruthySeq(request[1].title)
    /\ Len(calls) = 3
    /\ \A i \in 1..Len(calls) : ~StepFailed(calls[i])

\* the run returned True and the upload tool was invoked exactly once, with
\* the audio file's stem as title and the deepcast output as file
C9_Upload ==
    /\ result = Some(TRUE)
    /\ Cardinality(CallsOf("notion-upload")) = 1
    /\ \A i \in CallsOf("notion-upload") :
          /\ calls[i].title = Some(Stem(audio_file[1].name))
          /\ calls[i].file =
                DeepcastPath(output_dir, TranscriptPath(output_dir, audio_file[1]))

\* the two artifacts of the run
C9_Artifacts ==
    {TranscriptPath(output_dir, audio_file[1]),
     DeepcastPath(output_dir, TranscriptPath(output_dir, audio_file[1]))}

\* C9 as claimed: ... and afterwards neither the transcript nor the deepcast
\* artifact exists
C9_Original ==
    C9_Case => (C9_Upload /\ \A f \in C9_Artifacts : ~Exists(f, fs))

\* C9 as amended: ... and afterwards an artifact exists only if its deletion
\* was attempted and failed
C9_EndToEndSuccess ==
    C9_Case =>
        /\ C9_Upload
        /\ \A f \in C9_Artifacts :
              Exists(f, fs) =>
                  \E j \in 1..Len(unlinks) : unlinks[j].file = f /\ ~unlinks[j].ok

\* meeting.mp3 went through: uploaded once under the title "meeting", both
\* artifacts deleted
C9_Witness ==
    /\ C9_Case
    /\ audio_file = Some(Join(<<>>, <<"meeting", ".", "mp3">>))
    /\ calls[3].title = Some(<<"meeting">>)
    /\ Len(unlinks) = 2
    /\ \A f \in C9_Artifacts : ~Exists(f, fs)

(***************************************************************************)
(* C10: the upload tool is invoked only when "notion-upload" is in the     *)
(* resolved steps, at most once in a run, on the deepcast output when      *)
(* deepcast ran and succeeded, else on the transcript when transcribe ran  *)
(* and succeeded, else on the audio file itself.                           *)
(***************************************************************************)
C10_UploadFile ==
    /\ Cardinality(CallsOf("notion-upload")) <= 1
    /\ \A i \in CallsOf("notion-upload") :
          /\ InSteps("notion-upload", steps[1])
          /\ calls[i].file =
                IF \E j \in CallsOf("deepcast") : ~StepFailed(calls[j])
                THEN DeepcastPath(output_dir, TranscriptPath(output_dir, audio_file[1]))
                ELSE IF \E j \in CallsOf("transcribe") : ~StepFailed(calls[j])
                THEN TranscriptPath(output_dir, audio_file[1])
                ELSE audio_file[1]

\* a three-step run that went through: the upload got the deepcast output
C10_Witness ==
    /\ pc = "Done"
    /\ Len(calls) = 3
    /\ calls[3].tool = "notion-upload"
    /\ calls[3].file = deepcast_file[1]

(***************************************************************************)
(* C11: without an explicit path the candidates are probed in the fixed    *)
(* priority order (original_cwd/audio-workflow.yaml, original_cwd/         *)
(* config.yaml, user config dir, home file, AUDIO_WORKFLOW_CONFIG path,    *)
(* config.yaml beside the entry point); the configuration is what the      *)
(* first existing candidate loads to, that file alone is opened, and with  *)
(* no candidate existing the configuration is empty.                       *)
(***************************************************************************)
\* the candidates in the claimed order, for the environment at hand
C11_Candidates ==
    LET original_cwd == IF env.AUDIO_WORKFLOW_ORIGINAL_CWD = None THEN Cwd
                        ELSE env.AUDIO_WORKFLOW_ORIGINAL_CWD[1]
    IN  <<[dir |-> original_cwd, name |-> <<"audio-workflow", ".", "yaml">>],
          [dir |-> original_cwd, name |-> <<"config", ".", "yaml">>],
          [dir |-> <<"/", "home", "user", ".config", "audio-workflow">>,
           name |-> <<"config", ".", "yaml">>],
          [dir |-> <<"/", "home", "user">>,
           name |-> <<".", "audio-workflow", ".", "yaml">>]>>
        \o (IF env.AUDIO_WORKFLOW_CONFIG \in {None, Some(EmptyPath)}
            THEN <<>> ELSE <<env.AUDIO_WORKFLOW_CONFIG[1]>>)
        \o <<[dir |-> <<"/", "opt", "app">>, name |-> <<"config", ".", "yaml">>]>>

\* the positions of the candidates that exist
C11_Existing ==
    {i \in 1..Len(C11_Candidates) : disk[C11_Candidates[i]].kind # "missing"}

C11_FirstExistingWins ==
    config_file = None =>
        /\ cpc = "New" =>
              /\ probes = SubSeq(C11_Candidates, 1, Len(probes))
              /\ \A i \in 1..Len(probes) : i \notin C11_Existing
              /\ opened = <<>>
        /\ (cpc \in {"Loaded", "Constructed"} /\ C11_Existing = {}) =>
              /\ probes = C11_Candidates
              /\ opened = <<>>
              /\ config = EmptyConfig
        /\ (cpc \in {"Loaded", "Constructed"} /\ C11_Existing # {}) =>
              LET first == CHOOSE i \in C11_Existing : \A j \in C11_Existing : i <= j
                  file  == C11_Candidates[first]
              IN  /\ probes = SubSeq(C11_Candidates, 1, first)
                  /\ opened = <<file>>
                  /\ config = IF disk[file].kind = "mapping" THEN DocAt(file)
                              ELSE EmptyConfig

\* the user config dir file won over the AUDIO_WORKFLOW_CONFIG file and the
\* one beside the entry point, which hold documents too
C11_Witness ==
    /\ cpc = "Constructed"
    /\ config_file = None
    /\ env.AUDIO_WORKFLOW_CONFIG = Some(CustomPath)
    /\ Len(probes) = 3
    /\ config.defaults.workflow = Some("home-config")
    /\ disk[CustomPath].kind = "mapping"
    /\ disk[Join(ScriptDir, ConfigYaml)].kind = "mapping"

(***************************************************************************)
(* C13: path resolution. output_dir "." (or absent) is the original        *)
(* working directory, AUDIO_WORKFLOW_ORIGINAL_CWD when set, not the        *)
(* process directory when the two differ; an output_dir starting with "/"  *)
(* is taken as it is, any other is joined under the original working       *)
(* directory; a relative temp_dir is joined under the process directory.   *)
(***************************************************************************)
C13_PathResolution ==
    cpc = "Constructed" =>
        LET set == /\ env.AUDIO_WORKFLOW_ORIGINAL_CWD # None
                   /\ env.AUDIO_WORKFLOW_ORIGINAL_CWD[1] # <<>>
            original_cwd == IF set THEN env.AUDIO_WORKFLOW_ORIGINAL_CWD[1]
                            ELSE <<"/", "proc">>
            out == config.defaults.output_dir
            tmp == config.defaults.temp_dir
        IN  /\ out \in {None, Some(<<".">>)} =>
                  /\ output_dir = original_cwd
                  /\ original_cwd # <<"/", "proc">> => output_dir # <<"/", "proc">>
            /\ (out # None /\ out[1] # <<>> /\ out[1][1] = "/") =>
                  output_dir = out[1]
            /\ (out # None /\ out[1] # <<".">> /\ (out[1] = <<>> \/ out[1][1] # "/")) =>
                  output_dir = original_cwd \o out[1]
            /\ (tmp # None /\ tmp[1][1] = "/") => temp_dir = tmp[1]
            /\ (tmp # None /\ tmp[1][1] # "/") => temp_dir = <<"/", "proc">> \o tmp[1]

\* a relative output_dir and a relative temp_dir went to different directories
C13_Witness ==
    /\ cpc = "Constructed"
    /\ env.AUDIO_WORKFLOW_ORIGINAL_CWD = Some(UserDir)
    /\ config.defaults.output_dir = Some(<<"out">>)
    /\ config.defaults.temp_dir = Some(<<"scratch">>)
    /\ output_dir = <<"/", "work", "out">>
    /\ temp_dir = <<"/", "proc", "scratch">>

(***************************************************************************)
(* C18: with an explicit configuration path exactly that file is loaded    *)
(* and no candidate location is probed; when the file is missing or cannot *)
(* be parsed the construction goes on with the empty configuration, also   *)
(* when a discoverable configuration file exists.                          *)
(***************************************************************************)
C18_ExplicitPathOnly ==
    (config_file # None /\ cpc # "New") =>
        /\ probes = <<>>
        /\ opened = <<config_file[1]>>
        /\ disk[config_file[1]].kind = "mapping" => config = DocAt(config_file[1])
        /\ disk[config_file[1]].kind \in {"missing", "unparsable"} =>
              /\ config = EmptyConfig
              /\ cpc = "Constructed" =>
                    (output_dir = OriginalCwd(env) /\ temp_dir = <<"/", "tmp">>)

\* the explicit file is missing, audio-workflow.yaml in the working directory
\* holds a document: the orchestrator is constructed on the defaults
C18_Witness ==
    /\ cpc = "Constructed"
    /\ config_file = Some(CustomPath)
    /\ disk[CustomPath].kind = "missing"
    /\ disk[Join(Cwd, AudioWorkflowYaml)].kind = "mapping"
    /\ env.AUDIO_WORKFLOW_ORIGINAL_CWD = None
    /\ config = EmptyConfig


\* the plan of the current run is resolved: validation is over and both
\* credentials were there
PlanResolved == pc \notin {"Idle", "Validating"} /\ CredentialsPresent

\* the selected workflow is defined by the configuration
C12_Known == workflow[1] \in DOMAIN config.workflows

(***************************************************************************)
(* C12 as stated, an empty steps list read as "no steps": the resolved     *)
(* step list is workflows[name].steps when the selected workflow is known  *)
(* and lists at least one step, and the default transcribe, deepcast,      *)
(* notion-upload otherwise.                                                *)
(***************************************************************************)
C12_Original ==
    steps # None =>
        steps[1] = IF /\ C12_Known
                      /\ config.workflows[workflow[1]].steps \notin {None, Some(<<>>)}
                   THEN config.workflows[workflow[1]].steps[1]
                   ELSE DefaultSteps

(***************************************************************************)
(* C12: the resolved step list is workflows[name].steps when the selected  *)
(* workflow is known and has a steps entry, an empty list included, and    *)
(* the default transcribe, deepcast, notion-upload when the name is        *)
(* unknown or the definition has no steps entry.                           *)
(***************************************************************************)
C12_ResolvedSteps ==
    steps # None =>
        steps[1] = IF C12_Known /\ config.workflows[workflow[1]].steps # None
                   THEN config.workflows[workflow[1]].steps[1]
                   ELSE DefaultSteps

\* a run of a known workflow whose steps list is empty is over, and one of a
\* definition without steps entry would have got the default
C12_Witness ==
    /\ pc = "Done"
    /\ C12_Known
    /\ config.workflows[workflow[1]].steps = Some(<<>>)
    /\ steps = Some(<<>>)
    /\ calls = <<>>

(***************************************************************************)
(* C16: once the plan is resolved, database, workflow and keep_files are   *)
(* the explicit argument when one was passed (an explicit False included), *)
(* else the configuration default, else "meetings", "quick_notes" and      *)
(* false; a title that was not passed is the audio file's base name        *)
(* without extension and one that was passed is kept; every upload call    *)
(* carries exactly the resolved title and database id.                     *)
(***************************************************************************)
C16_ParameterLayering ==
    PlanResolved =>
        /\ database = IF request[1].database # None THEN request[1].database
                      ELSE IF config.defaults.database # None
                           THEN config.defaults.database
                           ELSE Some("meetings")
        /\ workflow = IF request[1].workflow # None THEN request[1].workflow
                      ELSE IF config.defaults.workflow # None
                           THEN config.defaults.workflow
                           ELSE Some("quick_notes")
        /\ keep_files = IF request[1].keep_files # None THEN request[1].keep_files
                        ELSE IF config.defaults.keep_files # None
                             THEN config.defaults.keep_files
                             ELSE Some(FALSE)
        /\ request[1].title = None => title = Some(<<"meeting">>)
        /\ request[1].title = Some(<<"Weekly">>) => title = Some(<<"Weekly">>)
        /\ \A i \in CallsOf("notion-upload") :
               /\ calls[i].title = title
               /\ calls[i].database_id = database_id
               /\ Truthy(database_id)

\* a run with keep_files=False passed against a configuration default of
\* true, no database and no title passed, has uploaded and deleted
C16_Witness ==
    /\ pc = "Done"
    /\ request[1].keep_files = Some(FALSE)
    /\ config.defaults.keep_files = Some(TRUE)
    /\ request[1].database = None
    /\ config.defaults.database = Some("ideas")
    /\ request[1].title = None
    /\ CallsOf("notion-upload") # {}
    /\ unlinks # <<>>

\* the value of <DATABASE_NAME_UPPER>_DATABASE_ID for the resolved database:
\* these environments hold such a variable for "meetings" only
C17_Specific ==
    IF database[1] = "meetings" THEN env.MEETINGS_DATABASE_ID ELSE None

(***************************************************************************)
(* C17 as stated: the resolved database id is the configuration's id when  *)
(* the name is in the databases mapping; otherwise the value of            *)
(* <DATABASE_NAME_UPPER>_DATABASE_ID when that variable is set; otherwise  *)
(* the value of NOTION_DATABASE_ID.                                        *)
(***************************************************************************)
C17_Original ==
    PlanResolved =>
        database_id = IF database[1] \in DOMAIN config.databases
                      THEN Some(config.databases[database[1]])
                      ELSE IF C17_Specific # None
                           THEN C17_Specific
                           ELSE env.NOTION_DATABASE_ID

(***************************************************************************)
(* C17: the resolved database id is the configuration's id when the name   *)
(* is in the databases mapping; otherwise the value of                     *)
(* <DATABASE_NAME_UPPER>_DATABASE_ID when that variable is set to a        *)
(* non-empty value; otherwise the value of NOTION_DATABASE_ID.             *)
(***************************************************************************)
C17_FallbackChain ==
    PlanResolved =>
        database_id = IF database[1] \in DOMAIN config.databases
                      THEN Some(config.databases[database[1]])
                      ELSE IF C17_Specific \notin {None, Some("")}
                           THEN C17_Specific
                           ELSE env.NOTION_DATABASE_ID

\* the name is not in the mapping, both variables are set, and the upload got
\* the id of the variable named after the database
C17_Witness ==
    /\ pc = "Done"
    /\ database = Some("meetings")
    /\ "meetings" \notin DOMAIN config.databases
    /\ env.MEETINGS_DATABASE_ID = Some("meetings-env-db")
    /\ env.NOTION_DATABASE_ID = Some("generic-db")
    /\ \E i \in CallsOf("notion-upload") :
           calls[i].database_id = Some("meetings-env-db")


\* the place of a tool in the fixed order
ToolRank(tool) ==
    CASE tool = "transcribe"    -> 1
      [] tool = "deepcast"      -> 2
      [] tool = "notion-upload" -> 3

\* the place of a state in the run's progress
PcRank(p) ==
    CASE p = "Idle"         -> 0
      [] p = "Validating"   -> 1
      [] p = "Transcribing" -> 2
      [] p = "Deepcasting"  -> 3
      [] p = "Uploading"    -> 4
      [] p = "CleaningUp"   -> 5
      [] p = "Done"         -> 6
      [] p = "Failed"       -> 6

\* one step inside a run: the state moves forward or stays, a finished run
\* stays where it is, a tool call comes after every earlier tool of the run
\* in the order transcribe, deepcast, notion-upload and before any deletion,
\* and a deletion is attempted in CleaningUp only
C14_Step ==
    runs' = runs =>
        /\ PcRank(pc') >= PcRank(pc)
        /\ pc \in {"Done", "Failed"} => pc' = pc
        /\ pc' \in {"Validating", "Transcribing", "Deepcasting", "Uploading",
                    "CleaningUp", "Done", "Failed"}
        /\ calls' # calls =>
              /\ Len(calls') = Len(calls) + 1
              /\ SubSeq(calls', 1, Len(calls)) = calls
              /\ \A i \in 1..Len(calls) :
                     ToolRank(calls[i].tool) < ToolRank(calls'[Len(calls')].tool)
              /\ unlinks = <<>>
              /\ unlinks' = <<>>
        /\ unlinks' # unlinks => pc = "CleaningUp"

(***************************************************************************)
(* C14: whatever the order of the names in the steps list, the tools of a  *)
(* run are invoked in the order transcribe, deepcast, notion-upload, each  *)
(* at most once, and before any deletion; a run only moves forward through *)
(* Validating, Transcribing, Deepcasting, Uploading, CleaningUp, and once  *)
(* in Done or Failed it stays there.                                       *)
(***************************************************************************)
C14_FixedOrder == [][C14_Step]_vars

\* a run whose steps list names the tools in reverse order has called all
\* three and then attempted both deletions
C14_Witness ==
    /\ pc = "Done"
    /\ steps = Some(<<"notion-upload", "deepcast", "transcribe">>)
    /\ Len(calls) = 3
    /\ calls[1].tool = "transcribe"
    /\ calls[3].tool = "notion-upload"
    /\ Len(unlinks) = 2

\* file f is an artifact a step of this run was told to write
C15_Artifact(f) ==
    \E i \in 1..Len(calls) :
        \/ calls[i].tool = "transcribe"
           /\ f = TranscriptPath(calls[i].out[1], calls[i].file)
        \/ calls[i].tool = "deepcast" /\ f = calls[i].out[1]

(***************************************************************************)
(* C15: a run never deletes the audio file it was given, whatever the      *)
(* steps list and keep_files are; every file it deletes is the transcript  *)
(* or the deepcast artifact of one of its own steps.                       *)
(***************************************************************************)
C15_OriginalAudioSurvives ==
    \A i \in 1..Len(unlinks) :
        unlinks[i].ok =>
            /\ Abs(unlinks[i].file) # Abs(audio_file[1])
            /\ C15_Artifact(unlinks[i].file)

(***************************************************************************)
(* C19: _cleanup_files never makes the run fail, and when it is over every *)
(* file of its list that is still there (other than one spelled            *)
(* "audio_file") has had its deletion attempted, whether or not the        *)
(* deletion of a file before it in the list failed.                        *)
(***************************************************************************)
C19_BestEffortPerFile ==
    /\ pending # None => pc \in {"CleaningUp", "Done"}
    /\ (pc = "Done" /\ CleanupWanted(keep_files)) =>
          LET files == CleanupList(steps[1], transcript_file, deepcast_file)
          IN  \A k \in 1..Len(files) :
                  (files[k] # LiteralAudioFile /\ Exists(files[k], fs)) =>
                      \E i \in 1..Len(unlinks) :
                          unlinks[i].file = files[k] /\ ~unlinks[i].ok

\* the first deletion failed, the second one was attempted all the same, and
\* the run returned True
C19_Witness ==
    /\ pc = "Done"
    /\ result = Some(TRUE)
    /\ Len(unlinks) = 2
    /\ ~unlinks[1].ok
    /\ unlinks[2].file # unlinks[1].file

====
